---------------------------- MODULE Spec2Model ----------------------------
(***************************************************************************)
(* Pomodoro timer: the tick-counting timer of script.js, the worker-       *)
(* delegated timer and the timestamp-based timer of the revised script,    *)
(* and the timer worker.                                                   *)
(*                                                                         *)
(* A JavaScript function that mutates the global `state` object and the    *)
(* browser's table of live intervals is an operator from a "world" record  *)
(* [state, intervals] to the world it leaves behind, so that a function    *)
(* calling another (resetTimer calls pauseTimer) is a composition.  An     *)
(* action applies one handler, whole, to the current world.                *)
(***************************************************************************)
EXTENDS Integers, Sequences, FiniteSets, TLC

VARIABLES
    state,       \* the global `state` object
    intervals,   \* ids of the live setInterval timers of the main thread
    notified,    \* the notifications raised by the handler that ran last
    last,        \* history: the last handler run, its argument, the world before it
    scn,         \* position in the README scenario (ScenarioSpec)
    scnTicks,    \* seconds elapsed in the current run segment of the scenario
    armed,       \* time slices since the live interval was armed or fired (FineSpec)
    ranFor,      \* time slices spent running since the start (FineSpec)
    timerWorker, \* the revised script's `timerWorker`: Null until registration succeeds
    registration,\* the promise of navigator.serviceWorker.register
    toWorker,    \* messages posted to the worker, not yet handled
    toMain,      \* messages posted by the worker, not yet handled
    worker,      \* the worker's globals timerInterval, startTime, duration
    wIntervals,  \* ids of the worker's live setInterval timers
    now,         \* Date.now(), in milliseconds
    advances,    \* times the clock has been advanced
    startedAt,   \* history: Date.now() when the current run segment started
    localTicks,  \* firings of the fallback interval
    timerStartTime, \* the timestamp-based timer's `timerStartTime`
    pausedTime,  \* the timestamp-based timer's `pausedTime`
    heldAtStart, \* history: timeRemaining when the current run segment started
    twin,        \* the same timer driven by the worker, and its worker (EquivSpec)
    page,        \* the elements of the page that the script writes (PageSpec)
    refreshed,   \* history: calls of updateDisplay by the handler that ran last
    posted       \* history: what the worker has posted since the 'start' it got last

coreVars   == <<state, intervals, notified>>
scnVars    == <<scn, scnTicks>>
fineVars   == <<armed, ranFor>>
workerVars == <<timerWorker, registration, toWorker, toMain, worker,
                wIntervals, localTicks>>
clockVars  == <<now, advances, startedAt>>
tsVars     == <<timerStartTime, pausedTime, heldAtStart>>
pageVars   == <<page, refreshed>>
vars       == <<state, intervals, notified, last, scn, scnTicks, armed, ranFor,
                timerWorker, registration, toWorker, toMain, worker,
                wIntervals, localTicks, now, advances, startedAt,
                timerStartTime, pausedTime, heldAtStart, twin, page, refreshed,
                posted>>

-----------------------------------------------------------------------------
(* Bounds of the exploration *)

\* completions in work mode explored (sessionCount is unbounded in the code)
MaxSessions == 2
\* how far below zero timeRemaining is followed
MaxOvershoot == 2

-----------------------------------------------------------------------------
(* script.js: state *)

Null == 0

Modes == {"work", "short-break", "long-break"}

durations ==
    ("work" :> 25 * 60) @@ ("short-break" :> 5 * 60) @@ ("long-break" :> 15 * 60)

\* a page that comes up in short-break mode
InitialStateInBreak ==
    [ currentMode   |-> "short-break",
      timeRemaining |-> 5 * 60,
      isRunning     |-> FALSE,
      sessionCount  |-> 0,
      timerInterval |-> Null ]

InitialState ==
    [ currentMode   |-> "work",
      timeRemaining |-> 25 * 60,
      isRunning     |-> FALSE,
      sessionCount  |-> 0,
      timerInterval |-> Null ]

\* obj.field; a property the object does not have reads as undefined
Undefined == "undefined"
Get(obj, field) == IF field \in DOMAIN obj THEN obj[field] ELSE Undefined

\* the world a handler starts in: it has raised no notification yet
World == [state |-> state, intervals |-> intervals, notified |-> <<>>]

\* setInterval: the browser hands out an id that names no live timer and is
\* held by no handle
setInterval(w) ==
    CHOOSE id \in 1..(Cardinality(w.intervals) + 2) :
        id \notin w.intervals /\ id # w.state.timerInterval

\* clearInterval(id): clearing null or a dead id does nothing
clearInterval(live, id) == live \ {id}

-----------------------------------------------------------------------------
(* script.js: display.  The elements of the page are a field of the world   *)
(* where a specification keeps the page; elsewhere the functions that write *)
(* them leave the world as it is.  The pulse of the time display after a    *)
(* completion, a class that no function reads, is left out.                 *)

\* a % b of JavaScript: the remainder has the sign of a
jsRem(a, b) == IF a >= 0 THEN a % b ELSE -((-a) % b)

\* str.padStart(targetLength, padString), for a padString of one character
RECURSIVE padStart(_, _, _)
padStart(str, targetLength, padString) ==
    IF Len(str) >= targetLength THEN str
    ELSE padStart(padString \o str, targetLength, padString)

\* v is undefined (told by its text: a number is not compared with a string)
IsUndefined(v) == ToString(v) = ToString(Undefined)

\* a formatTime that pads nothing
formatTimeUnpadded(seconds) ==
    ToString(seconds \div 60) \o ":" \o ToString(jsRem(seconds, 60))

\* undefined / 60 and undefined % 60 are NaN, which no padding lengthens
formatTime(seconds) ==
    IF IsUndefined(seconds) THEN "NaN:NaN"
    ELSE
    LET minutes          == seconds \div 60
        remainingSeconds == jsRem(seconds, 60)
        formattedMinutes == padStart(ToString(minutes), 2, "0")
        formattedSeconds == padStart(ToString(remainingSeconds), 2, "0")
    IN  formattedMinutes \o ":" \o formattedSeconds

modeLabels ==
    ("work" :> "Work Time") @@ ("short-break" :> "Short Break")
        @@ ("long-break" :> "Long Break")

\* the data-mode of the buttons of class mode-btn
ModeButtons == Modes

HasPage(w) == "page" \in DOMAIN w

\* element.textContent = text: undefined, like null, leaves the element empty
textContent(text) == IF text = Undefined THEN "" ELSE text

updateDisplay(w) ==
    IF ~HasPage(w) THEN w
    ELSE [w EXCEPT !.page.timeDisplay = formatTime(w.state.timeRemaining),
                   !.page.modeLabel =
                       textContent(Get(modeLabels, w.state.currentMode)),
                   !.page.sessionCount = ToString(w.state.sessionCount),
                   !.refreshed = @ + 1]

\* page.active: the buttons that carry the class 'active'
updateModeButtons(w) ==
    IF ~HasPage(w) THEN w
    ELSE [w EXCEPT !.page.active =
                       {button \in ModeButtons : button = w.state.currentMode}]

updateStartPauseButton(w) ==
    IF ~HasPage(w) THEN w
    ELSE IF w.state.isRunning
         THEN [w EXCEPT !.page.startPauseBtn =
                            [textContent |-> "Pause", running |-> TRUE]]
         ELSE [w EXCEPT !.page.startPauseBtn =
                            [textContent |-> "Start", running |-> FALSE]]

-----------------------------------------------------------------------------
(* script.js: timer logic *)

\* a pauseTimer that drops the handle without clearing the interval
pauseTimerKeepsInterval(w) ==
    IF ~w.state.isRunning THEN w
    ELSE [w EXCEPT !.state.isRunning = FALSE,
                   !.state.timerInterval = Null]

\* a pauseTimer that also puts the time back
pauseTimerResets(w) ==
    IF ~w.state.isRunning THEN w
    ELSE [w EXCEPT !.state.isRunning = FALSE,
                   !.intervals = clearInterval(@, w.state.timerInterval),
                   !.state.timerInterval = Null,
                   !.state.timeRemaining = durations[w.state.currentMode]]

\* a pauseTimer that leaves the start/pause button as it was
pauseTimerLeavesButton(w) ==
    IF ~w.state.isRunning THEN w
    ELSE [w EXCEPT !.state.isRunning = FALSE,
                   !.intervals = clearInterval(@, w.state.timerInterval),
                   !.state.timerInterval = Null]

pauseTimer(w) ==
    IF ~w.state.isRunning THEN w
    ELSE LET r == updateStartPauseButton([w EXCEPT !.state.isRunning = FALSE])
         IN  [r EXCEPT !.intervals = clearInterval(@, r.state.timerInterval),
                       !.state.timerInterval = Null]

\* a startTimer without the guard clause
startTimerNoGuard(w) ==
    LET id == setInterval(w)
    IN  [w EXCEPT !.state.isRunning = TRUE,
                  !.state.timerInterval = id,
                  !.intervals = @ \cup {id}]

\* a startTimer that arms no interval
startTimerNoInterval(w) ==
    IF w.state.isRunning THEN w
    ELSE [w EXCEPT !.state.isRunning = TRUE]

startTimer(w) ==
    IF w.state.isRunning THEN w
    ELSE LET r  == updateStartPauseButton([w EXCEPT !.state.isRunning = TRUE])
             id == setInterval(r)
         IN  [r EXCEPT !.state.timerInterval = id,
                       !.intervals = @ \cup {id}]

\* a resetTimer that stops the countdown and forgets to restore the time
resetTimerKeepsTime(w) == pauseTimer(w)

\* a resetTimer that leaves the display as it was
resetTimerNoRefresh(w) ==
    LET p == pauseTimer(w)
    IN  [p EXCEPT !.state.timeRemaining = durations[p.state.currentMode]]

resetTimer(w) ==
    LET p == pauseTimer(w)
    IN  updateDisplay(
            [p EXCEPT !.state.timeRemaining = durations[p.state.currentMode]])

\* showNotifications: the browser notification and the sound; the notification
\* is built from currentMode and sessionCount as they are when it is raised
showNotifications(w) ==
    [w EXCEPT !.notified =
        Append(@, [mode |-> w.state.currentMode,
                   sessionCount |-> Get(w.state, "sessionCount")])]

\* a timerComplete that counts every completion, breaks included
timerCompleteCountsBreaks(w) ==
    LET p == pauseTimer(w)
    IN  showNotifications([p EXCEPT !.state.sessionCount = @ + 1])

\* a timerComplete that leaves the countdown running
timerCompleteNoPause(w) ==
    LET c == IF w.state.currentMode = "work"
             THEN [w EXCEPT !.state.sessionCount = @ + 1]
             ELSE w
    IN  showNotifications(c)

\* a timerComplete that moves on to the break after a work session
timerCompleteAdvances(w) ==
    LET p == pauseTimer(w)
        c == IF p.state.currentMode = "work"
             THEN [p EXCEPT !.state.sessionCount = @ + 1]
             ELSE p
        n == showNotifications(c)
    IN  IF n.state.currentMode = "work"
        THEN [n EXCEPT !.state.currentMode = "short-break",
                       !.state.timeRemaining = durations["short-break"]]
        ELSE n

\* a timerComplete that notifies before it counts the session
timerCompleteNotifiesFirst(w) ==
    LET p == pauseTimer(w)
        n == showNotifications(p)
    IN  IF n.state.currentMode = "work"
        THEN [n EXCEPT !.state.sessionCount = @ + 1]
        ELSE n

timerComplete(w) ==
    LET p == pauseTimer(w)
        c == IF p.state.currentMode = "work"
             THEN updateDisplay([p EXCEPT !.state.sessionCount = @ + 1])
             ELSE p
    IN  showNotifications(c)

\* a callback that completes one second late (< 0 for <= 0)
intervalCallbackLate(w) ==
    LET d == [w EXCEPT !.state.timeRemaining = @ - 1]
    IN  IF d.state.timeRemaining < 0 THEN timerComplete(d) ELSE d

\* the arrow function startTimer hands to setInterval
intervalCallback(w) ==
    LET d == updateDisplay([w EXCEPT !.state.timeRemaining = @ - 1])
    IN  IF d.state.timeRemaining <= 0 THEN timerComplete(d) ELSE d

\* a switchMode that changes the mode under a running countdown
switchModeNoPause(w, mode) ==
    IF mode = w.state.currentMode THEN w
    ELSE [w EXCEPT !.state.currentMode = mode,
                   !.state.timeRemaining = durations[mode]]

\* a switchMode without the guard clause
switchModeAlwaysPauses(w, mode) ==
    LET p == pauseTimer(w)
    IN  [p EXCEPT !.state.currentMode = mode,
                  !.state.timeRemaining = durations[mode]]

switchMode(w, mode) ==
    IF mode = w.state.currentMode THEN w
    ELSE LET p == pauseTimer(w)
         IN  updateModeButtons(updateDisplay(
                 [p EXCEPT !.state.currentMode = mode,
                           !.state.timeRemaining = durations[mode]]))

-----------------------------------------------------------------------------
(* Actions of the tick-counting timer *)

Set(w) ==
    /\ state' = w.state
    /\ intervals' = w.intervals
    /\ notified' = w.notified

Did(op, arg) == last' = [op |-> op, arg |-> arg, pre |-> World]

\* the handler that ran last reached timerComplete
Completed == notified # <<>>

\* the parts a specification does not use stay as they are here
HistoryOff == last = [op |-> "init", arg |-> "none"]
ScenarioOff == scn = "off" /\ scnTicks = 0
FineOff == armed = 0 /\ ranFor = 0
WorkerOff ==
    /\ timerWorker = Null
    /\ registration = "unsupported"
    /\ toWorker = <<>>
    /\ toMain = <<>>
    /\ worker = [timerInterval |-> Null, startTime |-> Null, duration |-> 0]
    /\ wIntervals = {}
    /\ localTicks = 0
ClockOff == now = 0 /\ advances = 0 /\ startedAt = 0
TimestampsOff == timerStartTime = Null /\ pausedTime = 0 /\ heldAtStart = 0
TwinOff == twin = "none"
PageOff == page = "none" /\ refreshed = 0
PostedOff == posted = <<>>

Init ==
    /\ state = InitialState
    /\ intervals = {}
    /\ notified = <<>>
    /\ last = [op |-> "init", arg |-> "none",
               pre |-> [state |-> InitialState, intervals |-> {},
                        notified |-> <<>>]]
    /\ ScenarioOff /\ FineOff /\ WorkerOff /\ ClockOff /\ TimestampsOff
    /\ TwinOff /\ PageOff /\ PostedOff

StartTimer ==
    /\ Set(startTimer(World))
    /\ Did("startTimer", "none")
    /\ UNCHANGED <<scnVars, fineVars, workerVars, clockVars, tsVars, twin, pageVars, posted>>

PauseTimer ==
    /\ Set(pauseTimer(World))
    /\ Did("pauseTimer", "none")
    /\ UNCHANGED <<scnVars, fineVars, workerVars, clockVars, tsVars, twin, pageVars, posted>>

ResetTimer ==
    /\ Set(resetTimer(World))
    /\ Did("resetTimer", "none")
    /\ UNCHANGED <<scnVars, fineVars, workerVars, clockVars, tsVars, twin, pageVars, posted>>

SwitchMode ==
    \E mode \in Modes :
        /\ Set(switchMode(World, mode))
        /\ Did("switchMode", mode)
        /\ UNCHANGED <<scnVars, fineVars, workerVars, clockVars, tsVars, twin, pageVars, posted>>

\* a live interval fires
Tick ==
    \E id \in intervals :
        /\ state.timeRemaining > -MaxOvershoot
        /\ intervalCallback(World).state.sessionCount <= MaxSessions
        /\ Set(intervalCallback(World))
        /\ Did("tick", "none")
        /\ UNCHANGED <<scnVars, fineVars, workerVars, clockVars, tsVars, twin, pageVars, posted>>

Next == StartTimer \/ PauseTimer \/ ResetTimer \/ SwitchMode \/ Tick

Spec == Init /\ [][Next]_vars

-----------------------------------------------------------------------------
(* The same timer with its page *)

\* the world of a handler, the page included; the handler has not called
\* updateDisplay yet
PageWorld ==
    [ state |-> state, intervals |-> intervals, notified |-> <<>>,
      page |-> page, refreshed |-> 0 ]

SetPage(w) ==
    /\ Set(w)
    /\ page' = w.page
    /\ refreshed' = w.refreshed

\* the elements before the script has written them
BlankPage ==
    [ timeDisplay |-> "", modeLabel |-> "", sessionCount |-> "",
      active |-> {},
      startPauseBtn |-> [textContent |-> "", running |-> FALSE] ]

\* initializeApp, but for the listeners it adds
initializeApp(w) == updateStartPauseButton(updateModeButtons(updateDisplay(w)))

\* the page once initializeApp has run
PageInit ==
    /\ state = InitialState
    /\ intervals = {}
    /\ notified = <<>>
    /\ LET w == initializeApp([ state |-> InitialState, intervals |-> {},
                                notified |-> <<>>, page |-> BlankPage,
                                refreshed |-> 0 ])
       IN  page = w.page /\ refreshed = w.refreshed
    /\ last = [op |-> "initializeApp", arg |-> "none",
               pre |-> [state |-> InitialState, intervals |-> {},
                        notified |-> <<>>]]
    /\ ScenarioOff /\ FineOff /\ WorkerOff /\ ClockOff /\ TimestampsOff
    /\ TwinOff /\ PostedOff

pageFrame == <<scnVars, fineVars, workerVars, clockVars, tsVars, twin, posted>>

PageStart ==
    /\ SetPage(startTimer(PageWorld))
    /\ Did("startTimer", "none")
    /\ UNCHANGED pageFrame

PagePause ==
    /\ SetPage(pauseTimer(PageWorld))
    /\ Did("pauseTimer", "none")
    /\ UNCHANGED pageFrame

PageReset ==
    /\ SetPage(resetTimer(PageWorld))
    /\ Did("resetTimer", "none")
    /\ UNCHANGED pageFrame

PageSwitch ==
    \E mode \in Modes :
        /\ SetPage(switchMode(PageWorld, mode))
        /\ Did("switchMode", mode)
        /\ UNCHANGED pageFrame

\* a live interval fires
PageTick ==
    \E id \in intervals :
        /\ state.timeRemaining > -MaxOvershoot
        /\ intervalCallback(World).state.sessionCount <= MaxSessions
        /\ SetPage(intervalCallback(PageWorld))
        /\ Did("tick", "none")
        /\ UNCHANGED pageFrame

PageNext == PageStart \/ PagePause \/ PageReset \/ PageSwitch \/ PageTick

PageSpec == PageInit /\ [][PageNext]_vars

-----------------------------------------------------------------------------
(* formatTime on its own: a number of seconds is drawn, and the call is    *)
(* recorded with its argument and what it returned                         *)

\* the largest number of seconds formatted
MaxFormatSeconds == 6100

FormatInit ==
    /\ state = InitialState
    /\ intervals = {}
    /\ notified = <<>>
    /\ \E seconds \in 0..MaxFormatSeconds :
           last = [op |-> "argument", arg |-> seconds, result |-> ""]
    /\ ScenarioOff /\ FineOff /\ WorkerOff /\ ClockOff /\ TimestampsOff
    /\ TwinOff /\ PageOff /\ PostedOff

FormatTime ==
    /\ last.op = "argument"
    /\ last' = [op |-> "formatTime", arg |-> last.arg,
                result |-> formatTime(last.arg)]
    /\ UNCHANGED <<coreVars, scnVars, fineVars, workerVars, clockVars, tsVars,
                   twin, pageVars, posted>>

FormatNext == FormatTime

FormatSpec == FormatInit /\ [][FormatNext]_vars

-----------------------------------------------------------------------------
(* The click handlers; handleModeClick passes whatever data-mode the        *)
(* clicked element carries to switchMode                                    *)

handleStartPauseClick(w) ==
    IF w.state.isRunning THEN pauseTimer(w) ELSE startTimer(w)

handleResetClick(w) == resetTimer(w)

\* event.target.dataset.mode: a configured mode, the data-mode of no
\* configured mode, or undefined where the element has no data-mode
DatasetModes == Modes \cup {"pomodoro", Undefined}

\* handleModeClick, with switchMode as it runs on any argument:
\* state.durations[mode] of a mode that is no key of durations is undefined
handleModeClick(w, mode) ==
    IF mode = w.state.currentMode THEN w
    ELSE LET p == pauseTimer(w)
         IN  updateModeButtons(updateDisplay(
                 [p EXCEPT !.state.currentMode = mode,
                           !.state.timeRemaining = Get(durations, mode)]))

\* currentMode is one of the configured modes; the exploration ends where it
\* no longer is
ModeIsConfigured == state.currentMode \in Modes

ModeClick ==
    \E mode \in DatasetModes :
        /\ ModeIsConfigured
        /\ Set(handleModeClick(World, mode))
        /\ Did("handleModeClick", mode)
        /\ UNCHANGED <<scnVars, fineVars, workerVars, clockVars, tsVars, twin, pageVars, posted>>

StartPauseClick ==
    /\ ModeIsConfigured
    /\ Set(handleStartPauseClick(World))
    /\ Did("handleStartPauseClick", "none")
    /\ UNCHANGED <<scnVars, fineVars, workerVars, clockVars, tsVars, twin, pageVars, posted>>

ResetClick ==
    /\ ModeIsConfigured
    /\ Set(handleResetClick(World))
    /\ Did("handleResetClick", "none")
    /\ UNCHANGED <<scnVars, fineVars, workerVars, clockVars, tsVars, twin, pageVars, posted>>

\* a live interval fires
ClickTick == ModeIsConfigured /\ Tick

ClickNext == StartPauseClick \/ ResetClick \/ ModeClick \/ ClickTick

ClickSpec == Init /\ [][ClickNext]_vars

\* the click handlers, with the page
PageStartPauseClick ==
    /\ ModeIsConfigured
    /\ SetPage(handleStartPauseClick(PageWorld))
    /\ Did("handleStartPauseClick", "none")
    /\ UNCHANGED pageFrame

PageResetClick ==
    /\ ModeIsConfigured
    /\ SetPage(handleResetClick(PageWorld))
    /\ Did("handleResetClick", "none")
    /\ UNCHANGED pageFrame

PageModeClick ==
    \E mode \in DatasetModes :
        /\ ModeIsConfigured
        /\ SetPage(handleModeClick(PageWorld, mode))
        /\ Did("handleModeClick", mode)
        /\ UNCHANGED pageFrame

\* a live interval fires
PageClickTick == ModeIsConfigured /\ PageTick

PageClickNext ==
    PageStartPauseClick \/ PageResetClick \/ PageModeClick \/ PageClickTick

PageClickSpec == PageInit /\ [][PageClickNext]_vars

-----------------------------------------------------------------------------
(* The keyboard shortcuts *)

\* event.target.tagName
TagNames == {"BODY", "INPUT", "TEXTAREA"}
\* event.code
KeyCodes == {"Space", "KeyR", "Digit1", "Digit2", "Digit3", "KeyP"}

\* a handleKeyboard with the keys 2 and 3 exchanged
handleKeyboardSwapped(w, tagName, code) ==
    IF tagName \in {"INPUT", "TEXTAREA"} THEN w
    ELSE CASE code = "Space"  -> handleStartPauseClick(w)
           [] code = "KeyR"   -> handleResetClick(w)
           [] code = "Digit1" -> switchMode(w, "work")
           [] code = "Digit2" -> switchMode(w, "long-break")
           [] code = "Digit3" -> switchMode(w, "short-break")
           [] OTHER -> w

handleKeyboard(w, tagName, code) ==
    IF tagName \in {"INPUT", "TEXTAREA"} THEN w
    ELSE CASE code = "Space"  -> handleStartPauseClick(w)
           [] code = "KeyR"   -> handleResetClick(w)
           [] code = "Digit1" -> switchMode(w, "work")
           [] code = "Digit2" -> switchMode(w, "short-break")
           [] code = "Digit3" -> switchMode(w, "long-break")
           [] OTHER -> w

KeyDown ==
    \E tagName \in TagNames, code \in KeyCodes :
        /\ Set(handleKeyboard(World, tagName, code))
        /\ Did("keydown", <<tagName, code>>)
        /\ UNCHANGED <<scnVars, fineVars, workerVars, clockVars, tsVars, twin, pageVars, posted>>

KeyNext == KeyDown \/ Tick

KeySpec == Init /\ [][KeyNext]_vars

-----------------------------------------------------------------------------
(* The tick-counting timer with an interval that keeps firing while it is   *)
(* live.  The exploration is bounded at startTimer, so that no firing of a  *)
(* live interval is ever left out.                                          *)

LiveStart ==
    /\ \/ state.isRunning
       \/ state.timeRemaining >= 1 /\ state.sessionCount < MaxSessions
    /\ Set(startTimer(World))
    /\ Did("startTimer", "none")
    /\ UNCHANGED <<scnVars, fineVars, workerVars, clockVars, tsVars, twin, pageVars, posted>>

\* a live interval fires
LiveTick ==
    \E id \in intervals :
        /\ Set(intervalCallback(World))
        /\ Did("tick", "none")
        /\ UNCHANGED <<scnVars, fineVars, workerVars, clockVars, tsVars, twin, pageVars, posted>>

LiveNext == LiveStart \/ PauseTimer \/ ResetTimer \/ SwitchMode \/ LiveTick

\* setInterval fires its callback again and again until it is cleared
LiveSpec == Init /\ [][LiveNext]_vars /\ WF_vars(LiveTick)

-----------------------------------------------------------------------------
(* The README scenario, one interval tick per elapsed second: start, 90     *)
(* seconds, pause, start, 1410 seconds                                      *)

ScenarioInit ==
    /\ state = InitialState
    /\ intervals = {}
    /\ notified = <<>>
    /\ last = [op |-> "init", arg |-> "none",
               pre |-> [state |-> InitialState, intervals |-> {},
                        notified |-> <<>>]]
    /\ scn = "begin"
    /\ scnTicks = 0
    /\ FineOff /\ WorkerOff /\ ClockOff /\ TimestampsOff
    /\ TwinOff /\ PageOff /\ PostedOff

ScnStart ==
    /\ scn \in {"begin", "paused"}
    /\ Set(startTimer(World))
    /\ Did("startTimer", "none")
    /\ scn' = IF scn = "begin" THEN "first" ELSE "second"
    /\ scnTicks' = 0
    /\ UNCHANGED <<fineVars, workerVars, clockVars, tsVars, twin, pageVars, posted>>

ScnSecond ==
    /\ \/ scn = "first" /\ scnTicks < 90
       \/ scn = "second" /\ scnTicks < 1410
    /\ \E id \in intervals :
           /\ Set(intervalCallback(World))
           /\ Did("tick", "none")
    /\ scnTicks' = scnTicks + 1
    /\ UNCHANGED <<scn, fineVars, workerVars, clockVars, tsVars, twin, pageVars, posted>>

ScnPause ==
    /\ scn = "first"
    /\ scnTicks = 90
    /\ Set(pauseTimer(World))
    /\ Did("pauseTimer", "none")
    /\ scn' = "paused"
    /\ UNCHANGED <<scnTicks, fineVars, workerVars, clockVars, tsVars, twin, pageVars, posted>>

ScenarioNext == ScnStart \/ ScnSecond \/ ScnPause

ScenarioSpec == ScenarioInit /\ [][ScenarioNext]_vars

-----------------------------------------------------------------------------
(* The tick-counting timer under a clock finer than a second: the interval  *)
(* fires Slices time slices after it is armed and every Slices after that   *)

\* time slices in a second
Slices == 2
\* time slices of running time explored
MaxRanFor == 12

FineInit ==
    /\ state = InitialState
    /\ intervals = {}
    /\ notified = <<>>
    /\ last = [op |-> "init", arg |-> "none",
               pre |-> [state |-> InitialState, intervals |-> {},
                        notified |-> <<>>]]
    /\ armed = 0
    /\ ranFor = 0
    /\ ScenarioOff /\ WorkerOff /\ ClockOff /\ TimestampsOff
    /\ TwinOff /\ PageOff /\ PostedOff

FineStart ==
    /\ Set(startTimer(World))
    /\ Did("startTimer", "none")
    /\ armed' = IF state.isRunning THEN armed ELSE 0
    /\ UNCHANGED <<scnVars, ranFor, workerVars, clockVars, tsVars, twin, pageVars, posted>>

FinePause ==
    /\ Set(pauseTimer(World))
    /\ Did("pauseTimer", "none")
    /\ UNCHANGED <<scnVars, fineVars, workerVars, clockVars, tsVars, twin, pageVars, posted>>

\* one time slice passes while the countdown runs; the interval fires when its
\* second is over
FineAdvance ==
    /\ state.isRunning
    /\ ranFor < MaxRanFor
    /\ ranFor' = ranFor + 1
    /\ IF armed + 1 = Slices
       THEN /\ Set(intervalCallback(World))
            /\ Did("tick", "none")
            /\ armed' = 0
       ELSE /\ armed' = armed + 1
            /\ UNCHANGED <<coreVars, last>>
    /\ UNCHANGED <<scnVars, workerVars, clockVars, tsVars, twin, pageVars, posted>>

FineNext == FineStart \/ FinePause \/ FineAdvance

FineSpec == FineInit /\ [][FineNext]_vars

-----------------------------------------------------------------------------
(* The tick-counting timer under a wall clock, with an interval whose       *)
(* firings may be held back (a throttled or suspended tab)                  *)

\* clock advances explored by the tick-counting timer
MaxDelayAdvances == 4
\* delay of a firing after the interval was armed or fired: on time, held
\* back, or held back for 25 minutes
LocalFiringDelays == {1000, 2500, 25 * 60 * 1000}
\* time that passes without a firing
LocalIdleSteps == {500}

delayFrame == <<scnVars, fineVars, workerVars, timerStartTime, pausedTime,
                twin, pageVars, posted>>

DelayInit ==
    /\ state = InitialState
    /\ intervals = {}
    /\ notified = <<>>
    /\ last = [op |-> "init", arg |-> "none",
               pre |-> [state |-> InitialState, intervals |-> {},
                        notified |-> <<>>]]
    /\ now = 1000
    /\ advances = 0
    /\ startedAt = 0
    /\ ScenarioOff /\ FineOff /\ WorkerOff /\ TimestampsOff
    /\ TwinOff /\ PageOff /\ PostedOff

DelayStart ==
    /\ Set(startTimer(World))
    /\ Did("startTimer", "none")
    /\ startedAt' = IF state.isRunning THEN startedAt ELSE now
    /\ heldAtStart' = IF state.isRunning THEN heldAtStart
                      ELSE state.timeRemaining
    /\ UNCHANGED <<delayFrame, now, advances>>

DelayPause ==
    /\ Set(pauseTimer(World))
    /\ Did("pauseTimer", "none")
    /\ UNCHANGED <<delayFrame, clockVars, heldAtStart>>

\* the interval fires, `delay` milliseconds after the clock was last read
DelayTick ==
    \E id \in intervals, delay \in LocalFiringDelays :
        /\ advances < MaxDelayAdvances
        /\ advances' = advances + 1
        /\ now' = now + delay
        /\ Set(intervalCallback(World))
        /\ Did("tick", "none")
        /\ UNCHANGED <<delayFrame, startedAt, heldAtStart>>

\* time passes
DelayIdle ==
    \E step \in LocalIdleSteps :
        /\ advances < MaxDelayAdvances
        /\ advances' = advances + 1
        /\ now' = now + step
        /\ Did("idle", "none")
        /\ UNCHANGED <<coreVars, delayFrame, startedAt, heldAtStart>>

DelayNext == DelayStart \/ DelayPause \/ DelayTick \/ DelayIdle

DelaySpec == DelayInit /\ [][DelayNext]_vars

-----------------------------------------------------------------------------
(* The revised script (worker-delegated timer with a local fallback)        *)

\* its `state` has no sessionCount
InitialStateW ==
    [ currentMode   |-> "work",
      timeRemaining |-> 25 * 60,
      isRunning     |-> FALSE,
      timerInterval |-> Null ]

\* the Worker object that `new Worker('./timer-worker.js')` returns
TheWorker == 1

\* the world a handler of the revised script starts in
WorldW ==
    [ state |-> state, intervals |-> intervals, notified |-> <<>>,
      timerWorker |-> timerWorker, toWorker |-> toWorker,
      timerStartTime |-> timerStartTime, pausedTime |-> pausedTime ]

\* timerWorker.postMessage
postMessage(w, action, duration) ==
    [w EXCEPT !.toWorker = Append(@, [action |-> action, duration |-> duration])]

\* a pauseTimer that tells the worker nothing
pauseTimerWSilent(w) ==
    IF ~w.state.isRunning THEN w
    ELSE LET r == [w EXCEPT !.state.isRunning = FALSE]
         IN  [r EXCEPT !.intervals = clearInterval(@, r.state.timerInterval),
                       !.state.timerInterval = Null]

pauseTimerW(w) ==
    IF ~w.state.isRunning THEN w
    ELSE LET r == [w EXCEPT !.state.isRunning = FALSE]
         IN  IF r.timerWorker # Null
             THEN postMessage(r, "pause", 0)
             ELSE [r EXCEPT !.intervals = clearInterval(@, r.state.timerInterval),
                            !.state.timerInterval = Null]

timerCompleteW(w) == showNotifications(pauseTimerW(w))

\* the arrow function the fallback branch of startTimer hands to setInterval
fallbackCallback(w) ==
    LET d == [w EXCEPT !.state.timeRemaining = @ - 1]
    IN  IF d.state.timeRemaining <= 0 THEN timerCompleteW(d) ELSE d

\* a startTimer without the fallback branch
startTimerWNoFallback(w) ==
    IF w.state.isRunning THEN w
    ELSE LET r == [w EXCEPT !.state.isRunning = TRUE]
         IN  IF r.timerWorker # Null
             THEN postMessage(r, "start", r.state.timeRemaining)
             ELSE r

startTimerW(w) ==
    IF w.state.isRunning THEN w
    ELSE LET r == [w EXCEPT !.state.isRunning = TRUE]
         IN  IF r.timerWorker # Null
             THEN postMessage(r, "start", r.state.timeRemaining)
             ELSE LET id == setInterval(r)
                  IN  [r EXCEPT !.state.timerInterval = id,
                                !.intervals = @ \cup {id}]

resetTimerW(w) ==
    LET p == pauseTimerW(w)
        q == [p EXCEPT !.state.timeRemaining = durations[p.state.currentMode]]
    IN  IF q.timerWorker # Null THEN postMessage(q, "reset", 0) ELSE q

switchModeW(w, mode) ==
    IF mode = w.state.currentMode THEN w
    ELSE LET p == pauseTimerW(w)
         IN  [p EXCEPT !.state.currentMode = mode,
                       !.state.timeRemaining = durations[mode]]

\* timerWorker.onmessage
onmessage(w, msg) ==
    CASE msg.type = "tick" -> [w EXCEPT !.state.timeRemaining = msg.remaining]
      [] msg.type = "complete" -> timerCompleteW(w)
      [] OTHER -> w

-----------------------------------------------------------------------------
(* The timer worker (timer-worker.js, at the end of script.js)              *)

InitialWorker == [timerInterval |-> Null, startTime |-> Null, duration |-> 0]

\* the worker as a handler finds it: its globals, its live intervals, and the
\* messages the handler has posted
WorkerWorld ==
    [ timerInterval |-> worker.timerInterval, startTime |-> worker.startTime,
      duration |-> worker.duration, intervals |-> wIntervals, out |-> <<>> ]

Max(a, b) == IF a >= b THEN a ELSE b

\* self.postMessage
selfPostMessage(k, type, remaining, elapsed) ==
    [k EXCEPT !.out =
        Append(@, [type |-> type, remaining |-> remaining, elapsed |-> elapsed])]

\* a callback that leaves its interval live when the countdown is over
workerCallbackKeepsInterval(k, t) ==
    LET elapsed   == (t - k.startTime) \div 1000
        remaining == Max(0, k.duration - elapsed)
        ticked    == selfPostMessage(k, "tick", remaining, elapsed)
    IN  IF remaining <= 0
        THEN selfPostMessage(ticked, "complete", 0, 0)
        ELSE ticked

\* the arrow function the 'start' case hands to setInterval, run at time t
workerCallback(k, t) ==
    LET elapsed   == (t - k.startTime) \div 1000
        remaining == Max(0, k.duration - elapsed)
        ticked    == selfPostMessage(k, "tick", remaining, elapsed)
    IN  IF remaining <= 0
        THEN selfPostMessage(
                 [ticked EXCEPT !.intervals = clearInterval(@, k.timerInterval)],
                 "complete", 0, 0)
        ELSE ticked

\* the worker's 'message' listener, run at time t
workerOnMessage(k, msg, t) ==
    CASE msg.action = "start" ->
            LET id == CHOOSE i \in 1..(Cardinality(k.intervals) + 2) :
                          i \notin k.intervals /\ i # k.timerInterval
            IN  [k EXCEPT !.startTime = t,
                          !.duration = msg.duration,
                          !.timerInterval = id,
                          !.intervals = @ \cup {id}]
      [] msg.action = "pause" ->
            IF k.timerInterval # Null
            THEN [k EXCEPT !.intervals = clearInterval(@, k.timerInterval),
                           !.timerInterval = Null]
            ELSE k
      [] msg.action = "reset" ->
            LET c == IF k.timerInterval # Null
                     THEN [k EXCEPT !.intervals = clearInterval(@, k.timerInterval),
                                    !.timerInterval = Null]
                     ELSE k
            IN  [c EXCEPT !.startTime = Null, !.duration = 0]
      [] OTHER -> k

-----------------------------------------------------------------------------
(* Actions of the worker-delegated timer *)

\* messages in flight in one direction
MaxInFlight == 2
\* clock advances explored
MaxAdvances == 1
\* firings of the fallback interval explored
MaxLocalTicks == 1
\* what one advance adds to the clock: a second, or the 25 minutes of a
\* worker whose interval was held back that long
ClockSteps == {1000, 25 * 60 * 1000}

SetW(w) ==
    /\ state' = w.state
    /\ intervals' = w.intervals
    /\ notified' = w.notified
    /\ timerWorker' = w.timerWorker
    /\ toWorker' = w.toWorker
    /\ timerStartTime' = w.timerStartTime
    /\ pausedTime' = w.pausedTime
    /\ Len(w.toWorker) <= MaxInFlight

SetWorker(k) ==
    /\ worker' = [timerInterval |-> k.timerInterval, startTime |-> k.startTime,
                  duration |-> k.duration]
    /\ wIntervals' = k.intervals
    /\ toMain' = toMain \o k.out
    /\ Len(toMain') <= MaxInFlight

\* history of the commands, kept where the initial state starts it ("load"):
\* the latest of startTimer, resetTimer and switchMode
Track(op) ==
    last' = IF last.op = "init" THEN last ELSE [op |-> op, arg |-> "none"]

mainFrame == <<registration, toMain, worker, wIntervals, localTicks,
               now, advances, startedAt, scn, scnTicks, armed, ranFor,
               heldAtStart, twin, pageVars, posted>>

\* initializeServiceWorker: 'serviceWorker' in navigator or not; where it is,
\* the registration is pending when the page becomes usable
WorkerInit ==
    /\ state = InitialStateW
    /\ intervals = {}
    /\ notified = <<>>
    /\ timerWorker = Null
    /\ registration \in {"pending", "unsupported"}
    /\ toWorker = <<>>
    /\ toMain = <<>>
    /\ worker = InitialWorker
    /\ wIntervals = {}
    /\ localTicks = 0
    /\ now = 1000
    /\ advances = 0
    /\ startedAt = 0
    /\ HistoryOff /\ ScenarioOff /\ FineOff /\ TimestampsOff
    /\ TwinOff /\ PageOff /\ PostedOff

\* the registration promise is fulfilled: the .then callback creates the Worker
RegistrationFulfilled ==
    /\ registration = "pending"
    /\ registration' = "fulfilled"
    /\ timerWorker' = TheWorker
    /\ UNCHANGED <<state, intervals, notified, last, toWorker, toMain, worker,
                   wIntervals, localTicks, clockVars, scnVars, fineVars,
                   tsVars, twin, pageVars, posted>>

\* the registration promise is rejected: the .catch callback logs
RegistrationRejected ==
    /\ registration = "pending"
    /\ registration' = "rejected"
    /\ UNCHANGED <<state, intervals, notified, last, timerWorker, toWorker,
                   toMain, worker, wIntervals, localTicks, clockVars,
                   scnVars, fineVars, tsVars, twin, pageVars, posted>>

StartTimerW ==
    /\ SetW(startTimerW(WorldW))
    /\ Track("startTimer")
    /\ UNCHANGED mainFrame

PauseTimerW ==
    /\ SetW(pauseTimerW(WorldW))
    /\ UNCHANGED <<mainFrame, last>>

ResetTimerW ==
    /\ SetW(resetTimerW(WorldW))
    /\ Track("resetTimer")
    /\ UNCHANGED mainFrame

SwitchModeW ==
    \E mode \in Modes :
        /\ SetW(switchModeW(WorldW, mode))
        /\ Track("switchMode")
        /\ UNCHANGED mainFrame

\* the fallback interval fires
LocalTick ==
    \E id \in intervals :
        /\ localTicks < MaxLocalTicks
        /\ localTicks' = localTicks + 1
        /\ SetW(fallbackCallback(WorldW))
        /\ UNCHANGED <<last, registration, toMain, worker, wIntervals,
                       clockVars, scnVars, fineVars, heldAtStart, twin,
                       pageVars, posted>>

\* the main thread handles the next message of the worker
MainReceive ==
    /\ toMain # <<>>
    /\ SetW(onmessage(WorldW, Head(toMain)))
    /\ toMain' = Tail(toMain)
    /\ UNCHANGED <<last, registration, worker, wIntervals, localTicks,
                   clockVars, scnVars, fineVars, heldAtStart, twin, pageVars, posted>>

\* the worker handles the next message of the main thread
WorkerReceive ==
    /\ toWorker # <<>>
    /\ LET k == workerOnMessage(WorkerWorld, Head(toWorker), now)
       IN  SetWorker(k)
    /\ toWorker' = Tail(toWorker)
    /\ UNCHANGED <<state, intervals, notified, last, timerWorker, registration,
                   localTicks, clockVars, scnVars, fineVars, tsVars, twin, pageVars, posted>>

\* an interval of the worker fires, `step` milliseconds after the clock was
\* last read
WorkerFire ==
    \E id \in wIntervals, step \in ClockSteps :
        /\ advances < MaxAdvances
        /\ advances' = advances + 1
        /\ now' = now + step
        /\ SetWorker(workerCallback(WorkerWorld, now'))
        /\ UNCHANGED <<state, intervals, notified, last, timerWorker,
                       registration, toWorker, localTicks, startedAt, scnVars,
                       fineVars, tsVars, twin, pageVars, posted>>

WorkerNext ==
    \/ RegistrationFulfilled \/ RegistrationRejected
    \/ StartTimerW \/ PauseTimerW \/ ResetTimerW \/ SwitchModeW
    \/ LocalTick \/ MainReceive
    \/ WorkerReceive \/ WorkerFire

WorkerSpec == WorkerInit /\ [][WorkerNext]_vars

\* the same timer, with the history of its commands kept
RecoverInit ==
    /\ state = InitialStateW
    /\ intervals = {}
    /\ notified = <<>>
    /\ timerWorker = Null
    /\ registration \in {"pending", "unsupported"}
    /\ toWorker = <<>>
    /\ toMain = <<>>
    /\ worker = InitialWorker
    /\ wIntervals = {}
    /\ localTicks = 0
    /\ now = 1000
    /\ advances = 0
    /\ startedAt = 0
    /\ last = [op |-> "load", arg |-> "none"]
    /\ ScenarioOff /\ FineOff /\ TimestampsOff
    /\ TwinOff /\ PageOff /\ PostedOff

RecoverSpec == RecoverInit /\ [][WorkerNext]_vars

\* timeRemaining when the registration is fulfilled, the timer idle: a value
\* the fallback countdown has left, -1 after a fallback countdown was started
\* again at 0
HeldAtRegistration == {-1, 0, 1, 2, 25 * 60}

\* the timer from the moment the worker exists
DelegatedInit ==
    /\ \E held \in HeldAtRegistration :
           state = [InitialStateW EXCEPT !.timeRemaining = held]
    /\ intervals = {}
    /\ notified = <<>>
    /\ timerWorker = TheWorker
    /\ registration = "fulfilled"
    /\ toWorker = <<>>
    /\ toMain = <<>>
    /\ worker = InitialWorker
    /\ wIntervals = {}
    /\ localTicks = 0
    /\ now = 1000
    /\ advances = 0
    /\ startedAt = 0
    /\ HistoryOff /\ ScenarioOff /\ FineOff /\ TimestampsOff
    /\ TwinOff /\ PageOff /\ PostedOff

DelegatedNext ==
    \/ StartTimerW \/ PauseTimerW \/ ResetTimerW \/ SwitchModeW
    \/ MainReceive \/ WorkerReceive \/ WorkerFire

DelegatedSpec == DelegatedInit /\ [][DelegatedNext]_vars

\* the same timer, its worker followed over several firings with what it has
\* posted since the 'start' it handled last

\* firings of the worker's intervals explored
MaxFires == 2
\* what passes between two firings: a second, or two where one was held back
FireSteps == {1000, 2000}

\* the worker handles the next message of the main thread
PostingReceive ==
    /\ toWorker # <<>>
    /\ SetWorker(workerOnMessage(WorkerWorld, Head(toWorker), now))
    /\ toWorker' = Tail(toWorker)
    /\ posted' = IF Head(toWorker).action = "start" THEN <<>> ELSE posted
    /\ UNCHANGED <<state, intervals, notified, last, timerWorker, registration,
                   localTicks, clockVars, scnVars, fineVars, tsVars, twin,
                   pageVars>>

\* an interval of the worker fires
PostingFire ==
    \E id \in wIntervals, step \in FireSteps :
        /\ advances < MaxFires
        /\ advances' = advances + 1
        /\ now' = now + step
        /\ LET k == workerCallback(WorkerWorld, now')
           IN  SetWorker(k) /\ posted' = posted \o k.out
        /\ UNCHANGED <<state, intervals, notified, last, timerWorker,
                       registration, toWorker, localTicks, startedAt, scnVars,
                       fineVars, tsVars, twin, pageVars>>

PostingNext ==
    \/ StartTimerW \/ PauseTimerW \/ ResetTimerW \/ SwitchModeW
    \/ MainReceive \/ PostingReceive \/ PostingFire

PostingSpec == DelegatedInit /\ [][PostingNext]_vars

-----------------------------------------------------------------------------
(* The two scheduling strategies side by side: the timer of <<state,        *)
(* intervals>> has no worker and counts with the fallback interval; `twin`  *)
(* is the same page with a worker, given the same commands at the same      *)
(* times.  Messages are handled as soon as they are posted and every live   *)
(* interval fires on the second.                                            *)

\* elapsed periods explored
MaxElapses == 4
\* what one period lasts, in seconds: one second, or a short break but for
\* its last two seconds
ElapsedSeconds == {1, 5 * 60 - 2}

\* the page with a worker as a handler finds it, and the worker
TwinWorld == [twin EXCEPT !.main.notified = <<>>]

\* both threads handle the messages posted to them, at time t, until none is
\* left
RECURSIVE settle(_, _)
settle(t, time) ==
    IF t.main.toWorker # <<>>
    THEN settle([t EXCEPT
                    !.worker = workerOnMessage(@, Head(t.main.toWorker), time),
                    !.main.toWorker = Tail(@)], time)
    ELSE IF t.worker.out # <<>>
    THEN settle([t EXCEPT
                    !.main = onmessage(@, Head(t.worker.out)),
                    !.worker.out = Tail(@)], time)
    ELSE t

\* a second ends at time t: the live interval of each timer fires
second(p, time) ==
    [ fallback |-> IF p.fallback.intervals # {}
                   THEN fallbackCallback(p.fallback)
                   ELSE p.fallback,
      twin     |-> IF p.twin.worker.intervals # {}
                   THEN settle([p.twin EXCEPT
                                   !.worker = workerCallback(@, time)], time)
                   ELSE p.twin ]

\* n seconds pass after time t: the first half of them, then the rest (p is
\* read first, so that it is computed before the seconds that follow it)
RECURSIVE seconds(_, _, _)
seconds(p, time, n) ==
    IF DOMAIN p = {} \/ n = 0 THEN p
    ELSE IF n = 1 THEN second(p, time + 1000)
    ELSE LET half == n \div 2
         IN  seconds(seconds(p, time, half), time + 1000 * half, n - half)

EquivInit ==
    /\ state = InitialStateW
    /\ intervals = {}
    /\ notified = <<>>
    /\ twin = [ main   |-> [ state |-> InitialStateW, intervals |-> {},
                             notified |-> <<>>, timerWorker |-> TheWorker,
                             toWorker |-> <<>>, timerStartTime |-> Null,
                             pausedTime |-> 0 ],
                worker |-> [ timerInterval |-> Null, startTime |-> Null,
                             duration |-> 0, intervals |-> {}, out |-> <<>> ] ]
    /\ now = 1000
    /\ advances = 0
    /\ startedAt = 0
    /\ HistoryOff /\ ScenarioOff /\ FineOff /\ WorkerOff /\ TimestampsOff
    /\ PageOff /\ PostedOff

\* history of the pair: the command given last, or the period that passed
DidBoth(op, arg) == last' = [op |-> op, arg |-> arg]

equivFrame == <<scnVars, fineVars, registration, toMain, worker,
                wIntervals, localTicks, startedAt, heldAtStart, pageVars,
                posted>>

EquivStart ==
    /\ SetW(startTimerW(WorldW))
    /\ twin' = settle([TwinWorld EXCEPT !.main = startTimerW(@)], now)
    /\ DidBoth("startTimer", "none")
    /\ UNCHANGED <<equivFrame, now, advances>>

EquivPause ==
    /\ SetW(pauseTimerW(WorldW))
    /\ twin' = settle([TwinWorld EXCEPT !.main = pauseTimerW(@)], now)
    /\ DidBoth("pauseTimer", "none")
    /\ UNCHANGED <<equivFrame, now, advances>>

EquivReset ==
    /\ SetW(resetTimerW(WorldW))
    /\ twin' = settle([TwinWorld EXCEPT !.main = resetTimerW(@)], now)
    /\ DidBoth("resetTimer", "none")
    /\ UNCHANGED <<equivFrame, now, advances>>

EquivSwitch ==
    \E mode \in Modes :
        /\ SetW(switchModeW(WorldW, mode))
        /\ twin' = settle([TwinWorld EXCEPT !.main = switchModeW(@, mode)], now)
        /\ DidBoth("switchMode", mode)
        /\ UNCHANGED <<equivFrame, now, advances>>

\* a period passes with no command
EquivElapse ==
    \E n \in ElapsedSeconds :
        /\ advances < MaxElapses
        /\ advances' = advances + 1
        /\ now' = now + 1000 * n
        /\ LET p == seconds([fallback |-> WorldW, twin |-> TwinWorld], now, n)
           IN  SetW(p.fallback) /\ twin' = p.twin
        /\ DidBoth("elapse", "none")
        /\ UNCHANGED equivFrame

EquivNext ==
    EquivStart \/ EquivPause \/ EquivReset \/ EquivSwitch \/ EquivElapse

EquivSpec == EquivInit /\ [][EquivNext]_vars

-----------------------------------------------------------------------------
(* The timestamp-based timer of the revised script *)

\* history of the timestamp-based timer: the step taken last, and whether the
\* timer is paused ("paused") or how its run segment began ("resumed" after
\* a pause, "fresh" otherwise)
DidTs(op, segment) == last' = [op |-> op, arg |-> segment]

\* a start that does not record when it happened
startTimerWithTimestampsUnstamped(w, t) ==
    IF w.state.isRunning THEN w
    ELSE LET id == setInterval(w)
         IN  [w EXCEPT !.state.isRunning = TRUE,
                       !.pausedTime = 0,
                       !.state.timerInterval = id,
                       !.intervals = @ \cup {id}]

\* at time t
startTimerWithTimestamps(w, t) ==
    IF w.state.isRunning THEN w
    ELSE LET id == setInterval(w)
         IN  [w EXCEPT !.state.isRunning = TRUE,
                       !.timerStartTime = t,
                       !.pausedTime = 0,
                       !.state.timerInterval = id,
                       !.intervals = @ \cup {id}]

\* the arrow function startTimerWithTimestamps hands to setInterval, at time t
timestampCallback(w, t) ==
    LET elapsed   == (t - w.timerStartTime - w.pausedTime) \div 1000
        remaining == durations[w.state.currentMode] - elapsed
        d         == [w EXCEPT !.state.timeRemaining = Max(0, remaining)]
    IN  IF d.state.timeRemaining <= 0 THEN timerCompleteW(d) ELSE d

pauseTimerWithTimestamps(w, t) ==
    IF ~w.state.isRunning THEN w
    ELSE [w EXCEPT !.state.isRunning = FALSE,
                   !.intervals = clearInterval(@, w.state.timerInterval),
                   !.state.timerInterval = Null,
                   !.pausedTime = @ + t - w.timerStartTime
                       - (durations[w.state.currentMode]
                          - w.state.timeRemaining) * 1000]

resetTimerWithTimestamps(w, t) ==
    LET p == pauseTimerWithTimestamps(w, t)
    IN  [p EXCEPT !.state.timeRemaining = durations[p.state.currentMode],
                  !.timerStartTime = Null,
                  !.pausedTime = 0]

\* clock advances explored by the timestamp-based timer
MaxTsAdvances == 4
\* delay of a firing after the interval was armed or fired: on time, held
\* back, or held back for 25 minutes
FiringDelays == {1000, 2500, 25 * 60 * 1000}
\* time that passes without a firing
IdleSteps == {500}

tsFrame == <<registration, toMain, worker, wIntervals, localTicks, scnVars,
             fineVars, twin, pageVars, posted>>

TsInit ==
    /\ state = InitialStateW
    /\ intervals = {}
    /\ notified = <<>>
    /\ timerWorker = Null
    /\ registration = "unsupported"
    /\ toWorker = <<>>
    /\ toMain = <<>>
    /\ worker = InitialWorker
    /\ wIntervals = {}
    /\ localTicks = 0
    /\ now = 1000
    /\ advances = 0
    /\ startedAt = 0
    /\ timerStartTime = Null
    /\ pausedTime = 0
    /\ heldAtStart = 0
    /\ HistoryOff /\ ScenarioOff /\ FineOff
    /\ TwinOff /\ PageOff /\ PostedOff

TsStart ==
    /\ SetW(startTimerWithTimestamps(WorldW, now))
    /\ heldAtStart' = IF state.isRunning THEN heldAtStart
                      ELSE state.timeRemaining
    /\ DidTs("startTimer",
             IF state.isRunning THEN last.arg
             ELSE IF last.arg = "paused" THEN "resumed" ELSE "fresh")
    /\ UNCHANGED <<tsFrame, clockVars>>

TsPause ==
    /\ SetW(pauseTimerWithTimestamps(WorldW, now))
    /\ DidTs("pauseTimer", IF state.isRunning THEN "paused" ELSE last.arg)
    /\ UNCHANGED <<tsFrame, clockVars, heldAtStart>>

TsReset ==
    /\ SetW(resetTimerWithTimestamps(WorldW, now))
    /\ DidTs("resetTimer", "none")
    /\ UNCHANGED <<tsFrame, clockVars, heldAtStart>>

\* the interval fires, `delay` milliseconds after the clock was last read
TsTick ==
    \E id \in intervals, delay \in FiringDelays :
        /\ advances < MaxTsAdvances
        /\ advances' = advances + 1
        /\ now' = now + delay
        /\ SetW(timestampCallback(WorldW, now'))
        /\ DidTs("tick", last.arg)
        /\ UNCHANGED <<tsFrame, heldAtStart, startedAt>>

\* time passes
TsIdle ==
    \E step \in IdleSteps :
        /\ advances < MaxTsAdvances
        /\ advances' = advances + 1
        /\ now' = now + step
        /\ DidTs("idle", last.arg)
        /\ UNCHANGED <<coreVars, timerWorker, toWorker, tsFrame, tsVars,
                       startedAt>>

TsNext == TsStart \/ TsPause \/ TsReset \/ TsTick \/ TsIdle

TsSpec == TsInit /\ [][TsNext]_vars

-----------------------------------------------------------------------------
(* Claims *)

\* the main thread's live intervals plus the worker's
TickSources == Cardinality(intervals) + Cardinality(wIntervals)

\* the step is the main thread handling a message of the worker
IsMainReceive == toMain # <<>> /\ toMain' = Tail(toMain)

\* the step is a handler of the revised script reaching timerComplete
IsCompletionW ==
    /\ IsMainReceive \/ localTicks' = localTicks + 1
    /\ notified' # <<>>

\* C1: after any sequence of startTimer, pauseTimer, resetTimer, switchMode and
\* ticks, timeRemaining lies within [0, durations[currentMode]], also when
\* startTimer is called again after a completion without a reset.
C1_TimeRemainingInRange ==
    state.timeRemaining \in 0..durations[state.currentMode]

\* C2: in the revised script, whatever the interleaving of the worker's
\* registration with startTimer, pauseTimer, resetTimer and switchMode, the
\* number of active tick sources (main-thread interval plus worker interval)
\* is 1 while isRunning and 0 while not; stated of the states with no message
\* in flight, where a posted 'start' or 'pause' has taken effect.
C2_ExactlyOneTickSource ==
    (toWorker = <<>> /\ toMain = <<>>) =>
        TickSources = (IF state.isRunning THEN 1 ELSE 0)

\* C3: a 'tick' message of the worker that the main thread handles after
\* pauseTimer, resetTimer or switchMode has set isRunning to false is
\* discarded: it leaves timeRemaining unchanged.
C3_LateTickDiscarded ==
    [][ (IsMainReceive /\ Head(toMain).type = "tick" /\ ~state.isRunning)
        => state'.timeRemaining = state.timeRemaining ]_vars

\* C4: in the timestamp-based timer every tick, also in a run segment that
\* resumes after a pause, sets timeRemaining to the timeRemaining held at the
\* most recent start minus the whole seconds elapsed since that start,
\* floored at 0.
C4_TickCountsFromHeldValue ==
    (last.op = "tick" /\ last.arg = "resumed") =>
        state.timeRemaining =
            Max(0, heldAtStart - (now - timerStartTime) \div 1000)

\* C5: from Work at 1500, start, 90 seconds and pause give 1410; start again
\* and 1410 seconds give a completion, and no earlier one, with currentMode
\* still work, sessionCount 1, timeRemaining 0 and isRunning false.
C5_ReadmeScenario ==
    /\ scn = "paused" => state.timeRemaining = 1410 /\ ~state.isRunning
    /\ scn = "second" /\ scnTicks < 1410 =>
           /\ state.isRunning
           /\ state.sessionCount = 0
           /\ state.timeRemaining = 1410 - scnTicks
    /\ scn = "second" /\ scnTicks = 1410 =>
           /\ Completed
           /\ state.currentMode = "work"
           /\ state.sessionCount = 1
           /\ state.timeRemaining = 0
           /\ ~state.isRunning

C5_ScenarioDone == scn = "second" /\ scnTicks = 1410

\* C6: over any sequence of startTimer and pauseTimer during which the timer
\* was running for D seconds in total, timeRemaining has decreased by D
\* within plus or minus one second, whatever the number of pause/resume cycles.
C6_ElapsedIsAdditive ==
    LET decrease == Slices * (durations["work"] - state.timeRemaining)
    IN  /\ decrease <= ranFor + Slices
        /\ decrease >= ranFor - Slices

\* C7: sessionCount changes only in a completion that happens in work mode,
\* and then by exactly +1; a completion in a break leaves it unchanged, no
\* command changes it, and it never decreases.
C7_SessionCountOnlyOnWorkCompletion ==
    LET before == last.pre.state.sessionCount
        after  == state.sessionCount
        workCompletion ==
            last.op = "tick" /\ Completed /\ last.pre.state.currentMode = "work"
    IN  /\ after >= before
        /\ workCompletion => after = before + 1
        /\ ~workCompletion => after = before

C7_WorkThenBreakCompletion ==
    /\ last.op = "tick"
    /\ Completed
    /\ last.pre.state.currentMode = "short-break"
    /\ state.sessionCount = 1

\* C8: in the revised script every completion that happens in work mode
\* increases the session count by exactly 1, and the completion's notification
\* reports that count.
C8_WorkCompletionCountsSession ==
    [][ (IsCompletionW /\ state.currentMode = "work")
        => /\ "sessionCount" \in DOMAIN state
           /\ "sessionCount" \in DOMAIN state'
           /\ state'.sessionCount = state.sessionCount + 1
           /\ notified'[Len(notified')].sessionCount = state'.sessionCount ]_vars

\* C9: switchMode(m) with m other than currentMode, called while the timer is
\* running, pauses first: afterwards isRunning is false, the interval is
\* cleared so that no tick of the old countdown can fire, currentMode is m
\* and timeRemaining is durations[m].
C9_SwitchModePausesFirst ==
    (/\ last.op = "switchMode"
     /\ last.arg # last.pre.state.currentMode
     /\ last.pre.state.isRunning)
    => /\ ~state.isRunning
       /\ state.timerInterval = Null
       /\ intervals = {}
       /\ ~ENABLED Tick
       /\ state.currentMode = last.arg
       /\ state.timeRemaining = durations[last.arg]

C9_SwitchedWhileRunning ==
    /\ last.op = "switchMode"
    /\ last.pre.state.currentMode = "work"
    /\ last.pre.state.isRunning
    /\ last.pre.state.timeRemaining = 1500
    /\ state.currentMode = "short-break"
    /\ state.timeRemaining = 300

\* C10, as claimed: after switchMode(mode) timeRemaining is durations[mode]
\* for every mode, the current one included, and after resetTimer it is
\* durations[currentMode].
C10_SwitchOrResetRestoresAlways ==
    /\ last.op = "switchMode" => state.timeRemaining = durations[last.arg]
    /\ last.op = "resetTimer" =>
           state.timeRemaining = durations[state.currentMode]

\* C10, amended: after resetTimer timeRemaining is durations[currentMode];
\* after switchMode(mode) with mode other than the current mode it is
\* durations[mode]; switchMode(currentMode) leaves the state as it was.
C10_SwitchOrResetRestores ==
    /\ last.op = "resetTimer" =>
           state.timeRemaining = durations[state.currentMode]
    /\ last.op = "switchMode" /\ last.arg # last.pre.state.currentMode =>
           state.timeRemaining = durations[last.arg]
    /\ last.op = "switchMode" /\ last.arg = last.pre.state.currentMode =>
           state = last.pre.state

C10_ResetPartlyElapsed ==
    /\ last.op = "resetTimer"
    /\ last.pre.state.timeRemaining < durations[last.pre.state.currentMode]
    /\ last.pre.state.isRunning

\* C11: between operations state.timerInterval names a live interval exactly
\* when isRunning, and no interval besides the one in state.timerInterval is
\* live; two consecutive startTimer calls leave exactly one live interval.
C11_OneLiveInterval ==
    /\ (state.timerInterval \in intervals) <=> state.isRunning
    /\ intervals \subseteq {state.timerInterval}
    /\ Cardinality(intervals) = (IF state.isRunning THEN 1 ELSE 0)

C11_StartedTwice ==
    /\ last.op = "startTimer"
    /\ last.pre.state.isRunning
    /\ Cardinality(intervals) = 1

\* the fields of the world that idempotence is claimed of
Observable(w) ==
    <<w.state.isRunning, w.state.timeRemaining, w.state.currentMode,
      w.state.sessionCount, w.intervals>>

\* C12: from every reachable state startTimer twice in a row leaves the same
\* isRunning, timeRemaining, currentMode, sessionCount and live intervals as
\* startTimer once; the same for pauseTimer and for resetTimer.  Stated of the
\* state a call has just produced: the same call again changes nothing.
C12_Idempotent ==
    /\ last.op = "startTimer" =>
           Observable(startTimer(World)) = Observable(World)
    /\ last.op = "pauseTimer" =>
           Observable(pauseTimer(World)) = Observable(World)
    /\ last.op = "resetTimer" =>
           Observable(resetTimer(World)) = Observable(World)

C12_StartedFromIdle ==
    /\ last.op = "startTimer"
    /\ ~last.pre.state.isRunning
    /\ state.isRunning
    /\ state.timeRemaining < durations[state.currentMode]

\* C18: whenever a tick brings timeRemaining to 0, completion runs in that
\* tick: afterwards isRunning is false, the interval is cleared
\* (state.timerInterval is null) and no tick can fire before a startTimer.
C18_CompletionInSameTick ==
    (last.op = "tick" /\ state.timeRemaining = 0) =>
        /\ Completed
        /\ ~state.isRunning
        /\ state.timerInterval = Null
        /\ intervals = {}
        /\ ~ENABLED Tick

C18_TickReachedZero ==
    /\ last.op = "tick"
    /\ last.pre.state.timeRemaining = 1
    /\ state.timeRemaining = 0

\* C20: isRunning turns true only by startTimer, and false only by pauseTimer,
\* resetTimer, a switchMode to another mode or a completion; resetTimer and
\* switchMode called while idle leave it false; and a state reached by a
\* completion accepts startTimer.
C20_RunningTransitions ==
    /\ (~last.pre.state.isRunning /\ state.isRunning) =>
           last.op = "startTimer"
    /\ (last.pre.state.isRunning /\ ~state.isRunning) =>
           \/ last.op \in {"pauseTimer", "resetTimer"}
           \/ last.op = "switchMode" /\ last.arg # last.pre.state.currentMode
           \/ last.op = "tick" /\ Completed
    /\ (last.op \in {"resetTimer", "switchMode"} /\ ~last.pre.state.isRunning)
           => ~state.isRunning
    /\ Completed =>
           /\ ENABLED StartTimer
           /\ startTimer(World).state.isRunning
           /\ startTimer(World).intervals # {}

C20_RestartedAfterCompletion ==
    /\ last.op = "startTimer"
    /\ ~last.pre.state.isRunning
    /\ last.pre.state.timeRemaining = 0
    /\ state.isRunning

\* a command has stopped the countdown
StoppedByCommand ==
    /\ last.op \in {"pauseTimer", "resetTimer", "switchMode"}
    /\ last.pre.state.isRunning
    /\ ~state.isRunning

\* C19: if startTimer is called with timeRemaining at least 1 and no
\* pauseTimer, resetTimer or switchMode stops the countdown, then, the interval
\* firing fairly, a completion eventually occurs: a state with isRunning false
\* and timeRemaining 0.
C19_EventuallyCompletes ==
    (last.op = "startTimer" /\ state.isRunning /\ state.timeRemaining >= 1)
    ~> \/ Completed /\ ~state.isRunning /\ state.timeRemaining = 0
       \/ StoppedByCommand

C19_CompletedLongBreak ==
    /\ Completed
    /\ last.op = "tick"
    /\ last.pre.state.currentMode = "long-break"
    /\ ~state.isRunning
    /\ state.timeRemaining = 0

\* C14: switchMode called with a mode identifier that is none of the three
\* configured modes, the undefined of handleModeClick included, is a no-op:
\* currentMode, timeRemaining, isRunning and the tick source are unchanged.
C14_UnknownModeIsNoOp ==
    (last.op = "handleModeClick" /\ last.arg \notin Modes) =>
        /\ state.currentMode = last.pre.state.currentMode
        /\ state.isRunning = last.pre.state.isRunning
        /\ intervals = last.pre.intervals
        /\ state.timeRemaining = last.pre.state.timeRemaining

\* C15: under local interval scheduling a missed or delayed tick is harmless:
\* after a tick fires, timeRemaining is the value at the last start minus the
\* whole seconds of wall-clock time elapsed since that start (not below 0),
\* however many ticks fired in between.
C15_DelayedTickHarmless ==
    last.op = "tick" =>
        state.timeRemaining =
            Max(0, heldAtStart - (now - startedAt) \div 1000)

\* C17: while the timer runs, timeRemaining never increases from one tick to
\* the next: in the timestamp-based timer the value a tick writes is at most
\* the value it replaces, in every run segment, the first tick after a
\* resume included.
C17_TickNeverIncreases ==
    [][ (last'.op = "tick" /\ state.isRunning)
        => state'.timeRemaining <= state.timeRemaining ]_vars

\* C16: in the revised script startTimer called while not running always sets
\* isRunning and establishes a tick source, whatever the state of the
\* worker's registration: with no worker a local interval is armed, with a
\* worker a 'start' message is posted that makes the worker arm one; and
\* while there is no worker, startTimer, pauseTimer, resetTimer and
\* switchMode do what those of the local-only timer do.
C16_StartNeverBlocked ==
    /\ ~state.isRunning =>
           LET r == startTimerW(WorldW)
           IN  /\ r.state.isRunning
               /\ IF timerWorker = Null
                  THEN /\ r.state.timerInterval \in r.intervals
                       /\ r.state.timerInterval \notin intervals
                       /\ r.toWorker = toWorker
                  ELSE /\ r.intervals = intervals
                       /\ Len(r.toWorker) = Len(toWorker) + 1
                       /\ r.toWorker[Len(r.toWorker)].action = "start"
                       /\ workerOnMessage(WorkerWorld,
                              r.toWorker[Len(r.toWorker)], now).intervals
                          # wIntervals
    /\ timerWorker = Null =>
           /\ startTimerW(WorldW) = startTimer(WorldW)
           /\ pauseTimerW(WorldW) = pauseTimer(WorldW)
           /\ resetTimerW(WorldW) = resetTimer(WorldW)
           /\ \A mode \in Modes :
                  switchModeW(WorldW, mode) = switchMode(WorldW, mode)

C16_StartedAfterRejection ==
    /\ registration = "rejected"
    /\ state.isRunning
    /\ state.timerInterval \in intervals
    /\ toWorker = <<>>

\* C13: in the revised script, from every reachable state resetTimer leads to
\* a state with isRunning false and timeRemaining equal to
\* durations[currentMode], and timeRemaining stays at that value until the
\* next startTimer or switchMode.
C13_ResetRecovers ==
    last.op = "resetTimer" =>
        /\ ~state.isRunning
        /\ state.timeRemaining = durations[state.currentMode]

\* C21: a completion never advances the mode: currentMode is the same before
\* and after timerComplete, and only switchMode changes currentMode
\* (startTimer, pauseTimer, resetTimer and ticks leave it as it is).
C21_ModeChangesOnlyInSwitchMode ==
    /\ last.op # "switchMode" =>
           state.currentMode = last.pre.state.currentMode
    /\ (last.op = "tick" /\ Completed) =>
           /\ state.currentMode = last.pre.state.currentMode
           /\ notified[Len(notified)].mode = last.pre.state.currentMode

C21_SecondWorkCompletion ==
    /\ last.op = "tick"
    /\ Completed
    /\ state.currentMode = "work"
    /\ state.sessionCount = 2

\* C23: pauseTimer stops the countdown without resetting it: it leaves
\* timeRemaining, currentMode and sessionCount as they were; after it no tick
\* can fire, so timeRemaining stays until the next startTimer, resetTimer or
\* switchMode; and a startTimer that follows resumes from that value (its
\* first tick leaves one less).
C23_PauseKeepsTime ==
    last.op = "pauseTimer" =>
        /\ state.timeRemaining = last.pre.state.timeRemaining
        /\ state.currentMode = last.pre.state.currentMode
        /\ state.sessionCount = last.pre.state.sessionCount
        /\ ~state.isRunning
        /\ intervals = {}
        /\ ~ENABLED Tick
        /\ LET resumed == startTimer(World)
           IN  /\ resumed.state.isRunning
               /\ resumed.state.timeRemaining = state.timeRemaining
               /\ intervalCallback(resumed).state.timeRemaining
                      = state.timeRemaining - 1

C23_PausedPartWay ==
    /\ last.op = "pauseTimer"
    /\ last.pre.state.isRunning
    /\ state.timeRemaining < durations[state.currentMode]
    /\ state.timeRemaining > 0

\* C26: the initial state is currentMode work, timeRemaining durations.work
\* (1500), isRunning false, sessionCount 0 and no tick source (timerInterval
\* null).
C26_InitialState ==
    last.op = "init" =>
        /\ state.currentMode = "work"
        /\ state.timeRemaining = durations["work"]
        /\ state.timeRemaining = 1500
        /\ ~state.isRunning
        /\ state.sessionCount = 0
        /\ state.timerInterval = Null
        /\ intervals = {}

C26_JustLoaded == last.op = "init" /\ ~ENABLED Tick /\ ENABLED StartTimer

\* C28: sessionCount never exceeds the number of work countdowns that came
\* down to 0: startTimer right after a completion (timeRemaining 0, no
\* resetTimer or switchMode in between) produces no further completion and no
\* further sessionCount increment; a tick that completes ends a countdown that
\* stood at 1 or more.
C28_NoCompletionWithoutCountdown ==
    (last.op = "tick" /\ last.pre.state.timeRemaining <= 0) =>
        /\ ~Completed
        /\ state.sessionCount = last.pre.state.sessionCount

\* C29: within one completion the order is pause, sessionCount increment,
\* notification: the notification of a completion carries the mode that
\* completed and, in work mode, the sessionCount after the increment.
C29_NotificationAfterIncrement ==
    (last.op = "tick" /\ Completed) =>
        /\ Len(notified) = 1
        /\ ~state.isRunning
        /\ notified[1].mode = last.pre.state.currentMode
        /\ notified[1].sessionCount = state.sessionCount
        /\ last.pre.state.currentMode = "work" =>
               notified[1].sessionCount = last.pre.state.sessionCount + 1
        /\ last.pre.state.currentMode # "work" =>
               notified[1].sessionCount = last.pre.state.sessionCount

C29_FirstWorkNotification ==
    /\ last.op = "tick"
    /\ Completed
    /\ notified[1].mode = "work"
    /\ notified[1].sessionCount = 1

\* C25: when the key event's target is no INPUT or TEXTAREA, a shortcut has
\* exactly the effect of its command: Space toggles isRunning (pauseTimer if
\* running, otherwise startTimer), R that of resetTimer, 1, 2, 3 that of
\* switchMode to work, short-break, long-break; any other key leaves the
\* timer as it is.
C25_ShortcutsAreCommands ==
    (last.op = "keydown" /\ last.arg[1] \notin {"INPUT", "TEXTAREA"}) =>
        LET code == last.arg[2]
            pre  == last.pre
            expected ==
                CASE code = "Space" ->
                        IF pre.state.isRunning THEN pauseTimer(pre)
                        ELSE startTimer(pre)
                  [] code = "KeyR" -> resetTimer(pre)
                  [] code = "Digit1" -> switchMode(pre, "work")
                  [] code = "Digit2" -> switchMode(pre, "short-break")
                  [] code = "Digit3" -> switchMode(pre, "long-break")
                  [] OTHER -> pre
        IN  /\ state = expected.state
            /\ intervals = expected.intervals
            /\ notified = <<>>
            /\ code = "Space" => state.isRunning = ~pre.state.isRunning

C25_SpacePaused ==
    /\ last.op = "keydown"
    /\ last.arg = <<"BODY", "Space">>
    /\ last.pre.state.isRunning
    /\ ~state.isRunning
    /\ state.timeRemaining < durations[state.currentMode]

\* C27: a 'complete' message of the worker that the main thread handles after
\* the user has paused, reset or switched mode (isRunning already false) runs
\* no completion handling: no notification is raised and timeRemaining stays.
C27_LateCompleteIgnored ==
    [][ (IsMainReceive /\ Head(toMain).type = "complete" /\ ~state.isRunning)
        => /\ notified' = <<>>
           /\ state'.timeRemaining = state.timeRemaining ]_vars

\* C30: every 'tick' the worker posts after a 'start' with duration d carries
\* elapsed = floor((now - startTime) / 1000) and
\* remaining = max(0, d - elapsed), so that remaining lies within [0, d] and
\* depends on d and the elapsed time only.
C30_WorkerTickFromClock ==
    [][ advances' = advances + 1 =>
            LET tick    == toMain'[Len(toMain) + 1]
                d       == worker.duration
                elapsed == (now' - worker.startTime) \div 1000
            IN  /\ tick.type = "tick"
                /\ tick.elapsed = elapsed
                /\ tick.remaining = Max(0, d - elapsed)
                /\ tick.remaining \in 0..d ]_vars

\* C22: the timer driven by the worker and the timer driven by the fallback
\* interval, given the same commands at the same times, messages handled at
\* once and intervals firing on the second, have the same isRunning,
\* currentMode and timeRemaining after every step, a startTimer at
\* timeRemaining 0 included.
C22_StrategiesAgree ==
    /\ state.isRunning = twin.main.state.isRunning
    /\ state.currentMode = twin.main.state.currentMode
    /\ state.timeRemaining = twin.main.state.timeRemaining

\* what updateDisplay writes is what the state holds
Displayed ==
    /\ page.timeDisplay = formatTime(state.timeRemaining)
    /\ page.modeLabel = modeLabels[state.currentMode]
    /\ page.sessionCount = ToString(state.sessionCount)

\* C24 (as stated): updateDisplay is called at least once on every tick and
\* once immediately after each of the four commands startTimer, pauseTimer,
\* resetTimer and switchMode.
C24_RefreshedAfterEveryStep ==
    last.op \in {"tick", "startTimer", "pauseTimer", "resetTimer", "switchMode"}
        => refreshed >= 1

\* C24 (amended): updateDisplay is called at least once on every tick, and
\* once immediately after each resetTimer and each switchMode to another
\* mode; startTimer, pauseTimer and a switchMode to the current mode do not
\* call it, and leave the time, mode and session count displayed equal to
\* those of the state.
C24_RefreshedWhereStateChanges ==
    LET sameMode == last.op = "switchMode"
                        /\ last.arg = last.pre.state.currentMode
    IN  /\ last.op = "tick" => refreshed >= 1
        /\ last.op = "resetTimer" => refreshed = 1
        /\ (last.op = "switchMode" /\ ~sameMode) => refreshed = 1
        /\ (last.op \in {"startTimer", "pauseTimer"} \/ sameMode)
               => refreshed = 0 /\ Displayed

\* a countdown that has run for a while is reset
C24_ResetAfterTicks ==
    /\ last.op = "resetTimer"
    /\ last.pre.state.isRunning
    /\ last.pre.state.timeRemaining < durations[state.currentMode]
    /\ refreshed = 1
    /\ page.timeDisplay = formatTime(durations[state.currentMode])

\* C31: of the messages the worker posts after a 'start', at most one is a
\* 'complete'; it comes right after a 'tick' with remaining 0, and the worker
\* posts nothing after it until it handles the next 'start'.
C31_OneCompletePerStart ==
    \A i \in 1..Len(posted) :
        posted[i].type = "complete"
            => /\ i = Len(posted)
               /\ i > 1
               /\ posted[i - 1].type = "tick"
               /\ posted[i - 1].remaining = 0

\* a countdown of two seconds has ticked once and completed, and the main
\* thread has handled all that the worker posted
C31_CompletedAndQuiet ==
    /\ Len(posted) = 3
    /\ posted[3].type = "complete"
    /\ worker.duration = 2
    /\ toMain = <<>> /\ toWorker = <<>>
    /\ ~state.isRunning

\* C32: whatever the main thread does, the worker has at most one live
\* interval, and the 'start' it is about to handle finds none.
C32_OneWorkerInterval ==
    /\ Cardinality(wIntervals) <= 1
    /\ toWorker # <<>>
           => (Head(toWorker).action = "start" => wIntervals = {})

\* the worker runs an interval for a 'start' that came after an earlier
\* countdown of its own had fired
C32_StartedAgain ==
    /\ wIntervals # {}
    /\ worker.startTime > 1000
    /\ state.isRunning

\* C33: in the timestamp-based timer, isRunning true implies that
\* timerStartTime is not null.
C33_RunningHasStartTime == state.isRunning => timerStartTime # Null

\* a countdown started from the full duration after time has passed:
\* timerStartTime holds the time of that start
C33_StartedAfterReset ==
    /\ state.isRunning
    /\ last.op = "startTimer" /\ last.arg = "fresh"
    /\ state.timeRemaining = durations[state.currentMode]
    /\ now > 1000
    /\ timerStartTime = now

\* C34: after initializeApp and after every command and tick, the
\* start/pause button reads 'Pause' and carries the class 'running' when
\* isRunning is true, and reads 'Start' without that class when it is false.
C34_ButtonShowsRunning ==
    page.startPauseBtn =
        IF state.isRunning
        THEN [textContent |-> "Pause", running |-> TRUE]
        ELSE [textContent |-> "Start", running |-> FALSE]

\* a countdown has been stopped by its completion, and the button reads
\* 'Start' again
C34_StoppedByCompletion ==
    /\ last.op = "tick"
    /\ last.pre.state.isRunning
    /\ Completed
    /\ ~state.isRunning
    /\ page.startPauseBtn.textContent = "Start"

\* C35: after initializeApp and after every command and tick, the time
\* display shows formatTime(timeRemaining), the mode label and the one
\* 'active' mode button are those of currentMode, and the session counter
\* shows sessionCount.
C35_DisplayMatchesState ==
    /\ page.active = {state.currentMode}
    /\ Get(modeLabels, state.currentMode) # Undefined
    /\ page.modeLabel = Get(modeLabels, state.currentMode)
    /\ page.sessionCount = ToString(state.sessionCount)
    /\ page.timeDisplay = formatTime(state.timeRemaining)

\* the decimal numeral of a natural number, digit by digit
Digit(d) == <<"0", "1", "2", "3", "4", "5", "6", "7", "8", "9">>[d + 1]

RECURSIVE Decimal(_)
Decimal(n) ==
    IF n < 10 THEN Digit(n) ELSE Decimal(n \div 10) \o Digit(n % 10)

\* the numeral, with a '0' before it where it has one digit
TwoDigits(n) == IF n < 10 THEN "0" \o Digit(n) ELSE Decimal(n)

\* C36: for every integer s >= 0, [0, 1500] included, formatTime(s) is
\* floor(s / 60) and s mod 60, each padded with '0' to at least two digits,
\* joined by ':'; formatTime(1500) = '25:00', formatTime(65) = '01:05',
\* formatTime(3661) = '61:01'.
C36_FormatTime ==
    last.op = "formatTime" =>
        /\ last.result =
               TwoDigits(last.arg \div 60) \o ":" \o TwoDigits(last.arg % 60)
        /\ last.arg = 1500 => last.result = "25:00"
        /\ last.arg = 65 => last.result = "01:05"
        /\ last.arg = 3661 => last.result = "61:01"

\* more than 99 minutes: the minutes take three digits
C36_ThreeDigitMinutes ==
    /\ last.op = "formatTime"
    /\ last.arg = 6001
    /\ last.result = "100:01"

=============================================================================
